---- MODULE Spec2Model ----
(***************************************************************************)
(* The multiline text box (widgetry/src/widgets/multiline_text_box.rs) and *)
(* the LLM chat box that drives it (apps/game/src/sandbox/chat.rs).        *)
(*                                                                         *)
(* A Rust String is modelled as the sequence of its UTF-8 bytes, each byte *)
(* a one-element TLA+ string; cursor_x is a byte offset, as in the code.   *)
(***************************************************************************)
EXTENDS Integers, Sequences, FiniteSets, TLC

(***************************************************************************)
(* Bounds of the model.                                                    *)
(***************************************************************************)
\* longest text (in bytes) the chat input is driven to
MaxLen == 2
\* longest text (in bytes) the text box on its own is built with or driven to
MaxBufLen == 3
\* longest chat history the chat box is driven to: with every input event
\* (MaxMsgs), and in a conversation during which the panel is not resized
\* (MaxChatMsgs)
MaxMsgs == 3
MaxChatMsgs == 5

VARIABLES
    \* MultilineTextBox
    text, cursor_x, has_focus, autofocus,
    \* what the last MultilineTextBox::event call reported to its caller
    outcome, consumed,
    \* the UI thread has panicked (a String index off a char boundary)
    panicked,
    \* Chatbox
    messages, input_prefill, pending_rx, pending_command, width_pct, height_pct,
    \* the value take_command returned to the host since the last frame
    taken,
    \* position of the UI thread inside Chatbox::event
    pc,
    \* the spawned worker threads with their channels, and the environment
    workers, has_key,
    \* input and result of a parse_command evaluation
    reply, parsed

boxVars == <<text, cursor_x, has_focus, autofocus, outcome, consumed, panicked>>
chatVars == <<messages, input_prefill, pending_rx, pending_command, width_pct,
              height_pct, taken, pc, workers, has_key>>
parseVars == <<reply, parsed>>
vars == <<text, cursor_x, has_focus, autofocus, outcome, consumed, panicked,
          messages, input_prefill, pending_rx, pending_command, width_pct,
          height_pct, taken, pc, workers, has_key, reply, parsed>>

(***************************************************************************)
(* Strings as UTF-8 byte sequences.                                        *)
(***************************************************************************)
\* the two bytes of a two-byte character (U+00E9)
LeadByte == "0xC3"
ContByte == "0xA9"
NewLine == "\n"

\* str::is_char_boundary, idx counted from 0
IsCharBoundary(s, idx) ==
    \/ idx = 0
    \/ idx = Len(s)
    \/ (idx < Len(s) /\ s[idx + 1] # ContByte)

\* char::len_utf8 of the character starting with byte b
LenUtf8(b) == IF b = LeadByte THEN 2 ELSE 1

\* String::insert panics unless idx lies on a char boundary
InsertPanics(s, idx) == ~IsCharBoundary(s, idx)

\* String::insert(idx, ch) for a one-byte ch
StringInsert(s, idx, ch) ==
    SubSeq(s, 1, idx) \o <<ch>> \o SubSeq(s, idx + 1, Len(s))

\* String::remove panics at the end of the string and off a char boundary
RemovePanics(s, idx) == idx >= Len(s) \/ ~IsCharBoundary(s, idx)

\* String::remove(idx): removes the whole character that starts at idx
StringRemove(s, idx) ==
    SubSeq(s, 1, idx) \o SubSeq(s, idx + 1 + LenUtf8(s[idx + 1]), Len(s))

RECURSIVE ValidUtf8(_)
ValidUtf8(s) ==
    IF s = <<>> THEN TRUE
    ELSE IF Head(s) = ContByte THEN FALSE
    ELSE IF Head(s) = LeadByte
         THEN Len(s) >= 2 /\ s[2] = ContByte /\ ValidUtf8(SubSeq(s, 3, Len(s)))
    ELSE ValidUtf8(Tail(s))

Min(a, b) == IF a <= b THEN a ELSE b
Max(a, b) == IF a >= b THEN a ELSE b

\* all byte sequences over alphabet A of length at most n
SeqsUpTo(A, n) == UNION {[1..k -> A] : k \in 0..n}

(***************************************************************************)
(* Input events of one frame, as the widgets see them.                     *)
(***************************************************************************)
Keys == {"LeftArrow", "RightArrow", "Backspace", "Enter", "A", "Escape"}

\* Key::to_char: the character of a key, <<>> for a key that has none
KeyToChar(key) ==
    CASE key = "A" -> <<"a">>
      [] key = "B" -> <<"b">>
      [] key = "C" -> <<"c">>
      [] OTHER -> <<>>

KeyEvents == [kind : {"KeyPress"}, arg : Keys]
MouseEvents == [kind : {"MouseMoved"}, arg : {"in", "out", "none"}]
\* the keys the text box on its own is driven with
BufKeys == Keys \cup {"B", "C"}
BufKeyEvents == [kind : {"KeyPress"}, arg : BufKeys]
ClickEvents == [kind : {"Click"}, arg : {"send", "smaller", "larger"}]

\* EventCtx::redo_mouseover
RedoMouseover(ev) == ev.kind = "MouseMoved"

\* UserInput::any_pressed
AnyPressed(ev) == IF ev.kind = "KeyPress" THEN <<ev.arg>> ELSE <<>>

(***************************************************************************)
(* MultilineTextBox                                                        *)
(***************************************************************************)
\* MultilineTextBox::new
NewTextBox(prefilled, auto) ==
    [text |-> prefilled, cursor_x |-> Len(prefilled), has_focus |-> FALSE,
     autofocus |-> auto]

\* a hover test that gives the focus but never takes it away
FocusAfterHoverSticky(b, ev) ==
    IF ~b.autofocus /\ RedoMouseover(ev) THEN b.has_focus \/ ev.arg = "in"
    ELSE b.has_focus

\* the focus after the hover test at the head of MultilineTextBox::event
FocusAfterHover(b, ev) ==
    IF ~b.autofocus /\ RedoMouseover(ev) THEN ev.arg = "in" ELSE b.has_focus

\* a right arrow that does not stop at the end of the text
MoveRightUnclamped(b) == b.cursor_x + 1

\* Key::RightArrow
MoveRight(b) == Min(b.cursor_x + 1, Len(b.text))

\* a left arrow that does not stop at the start of the text
MoveLeftUnclamped(b) == b.cursor_x - 1

\* Key::LeftArrow
MoveLeft(b) == IF b.cursor_x > 0 THEN b.cursor_x - 1 ELSE b.cursor_x

\* the match on the pressed key in MultilineTextBox::event, for a box that
\* handles keys; the result carries the outputs of the call
HandleKey(b, key) ==
    LET same == [text |-> b.text, cursor_x |-> b.cursor_x, outcome |-> "Nothing",
                 consumed |-> TRUE, panicked |-> FALSE]
    IN CASE key = "LeftArrow" -> [same EXCEPT !.cursor_x = MoveLeft(b)]
         [] key = "RightArrow" -> [same EXCEPT !.cursor_x = MoveRight(b)]
         [] key = "Backspace" ->
              IF b.cursor_x > 0
              THEN IF RemovePanics(b.text, b.cursor_x - 1)
                   THEN [same EXCEPT !.outcome = "Changed", !.panicked = TRUE]
                   ELSE [same EXCEPT !.outcome = "Changed",
                                     !.text = StringRemove(b.text, b.cursor_x - 1),
                                     !.cursor_x = b.cursor_x - 1]
              ELSE same
         [] key = "Enter" ->
              IF InsertPanics(b.text, b.cursor_x)
              THEN [same EXCEPT !.outcome = "Changed", !.panicked = TRUE]
              ELSE [same EXCEPT !.outcome = "Changed",
                                !.text = StringInsert(b.text, b.cursor_x, NewLine),
                                !.cursor_x = b.cursor_x + 1]
         [] OTHER ->
              IF KeyToChar(key) # <<>>
              THEN IF InsertPanics(b.text, b.cursor_x)
                   THEN [same EXCEPT !.outcome = "Changed", !.panicked = TRUE]
                   ELSE [same EXCEPT !.outcome = "Changed",
                                     !.text = StringInsert(b.text, b.cursor_x,
                                                           KeyToChar(key)[1]),
                                     !.cursor_x = b.cursor_x + 1]
              ELSE [same EXCEPT !.consumed = FALSE]

\* MultilineTextBox::event: the box and the outputs of the call after event ev
TextBoxEvent(b, ev) ==
    LET focus == FocusAfterHover(b, ev)
        idle == [text |-> b.text, cursor_x |-> b.cursor_x, outcome |-> "Nothing",
                 consumed |-> FALSE, panicked |-> FALSE]
        r == IF ~b.autofocus /\ ~focus THEN idle
             ELSE IF AnyPressed(ev) # <<>> THEN HandleKey(b, AnyPressed(ev)[1])
             ELSE idle
    IN [text |-> r.text, cursor_x |-> r.cursor_x, has_focus |-> focus,
        autofocus |-> b.autofocus, outcome |-> r.outcome, consumed |-> r.consumed,
        panicked |-> r.panicked]

\* the text box as a record
Box == [text |-> text, cursor_x |-> cursor_x, has_focus |-> has_focus,
        autofocus |-> autofocus]

\* a key insert or a newline that would grow the text past the model's bound
GrowsPastBound(ev, n) ==
    ev.kind = "KeyPress" /\ (ev.arg = "Enter" \/ KeyToChar(ev.arg) # <<>>)
        /\ Len(text) >= n

(***************************************************************************)
(* Text helpers: str::to_lowercase, str::trim, str::contains.              *)
(***************************************************************************)
UpperCase ==
    <<"A", "B", "C", "D", "E", "F", "G", "H", "I", "J", "K", "L", "M", "N",
      "O", "P", "Q", "R", "S", "T", "U", "V", "W", "X", "Y", "Z">>
LowerCase ==
    <<"a", "b", "c", "d", "e", "f", "g", "h", "i", "j", "k", "l", "m", "n",
      "o", "p", "q", "r", "s", "t", "u", "v", "w", "x", "y", "z">>

\* char::to_lowercase on the ASCII letters; other bytes map to themselves
LowerChar(c) ==
    IF \E i \in 1..Len(UpperCase) : UpperCase[i] = c
    THEN LowerCase[CHOOSE i \in 1..Len(UpperCase) : UpperCase[i] = c]
    ELSE c

\* str::to_lowercase
ToLowercase(s) == [i \in 1..Len(s) |-> LowerChar(s[i])]

\* char::is_whitespace on the bytes the model uses
IsWhitespace(c) == c \in {" ", NewLine, "\t", "\r"}

RECURSIVE TrimStart(_)
TrimStart(s) ==
    IF s # <<>> /\ IsWhitespace(Head(s)) THEN TrimStart(Tail(s)) ELSE s

RECURSIVE TrimEnd(_)
TrimEnd(s) ==
    IF s # <<>> /\ IsWhitespace(s[Len(s)])
    THEN TrimEnd(SubSeq(s, 1, Len(s) - 1))
    ELSE s

\* str::trim
Trim(s) == TrimEnd(TrimStart(s))

\* str::contains for a string pattern
Contains(s, pat) ==
    \E i \in 0..(Len(s) - Len(pat)) : SubSeq(s, i + 1, i + Len(pat)) = pat

(***************************************************************************)
(* parse_command                                                           *)
(***************************************************************************)
ActionPause ==
    <<"a", "c", "t", "i", "o", "n", ":", " ", "p", "a", "u", "s", "e">>
WordPause ==
    <<"p", "a", "u", "s", "e">>
SlashPause ==
    <<"/", "p", "a", "u", "s", "e">>
ActionResume ==
    <<"a", "c", "t", "i", "o", "n", ":", " ", "r", "e", "s", "u", "m", "e">>
WordResume ==
    <<"r", "e", "s", "u", "m", "e">>
SlashResume ==
    <<"/", "r", "e", "s", "u", "m", "e">>
SlashPlay ==
    <<"/", "p", "l", "a", "y">>

\* the first condition of parse_command, on the lower-cased reply
PauseCond(lower) ==
    Contains(lower, ActionPause) \/ Trim(lower) = WordPause
        \/ Contains(lower, SlashPause)

\* the second condition of parse_command, on the lower-cased reply
ResumeCond(lower) ==
    Contains(lower, ActionResume) \/ Trim(lower) = WordResume
        \/ Contains(lower, SlashResume) \/ Contains(lower, SlashPlay)

\* parse_command with its two checks in the other order
parse_command_resume_first(r) ==
    LET lower == ToLowercase(r)
    IN IF ResumeCond(lower) THEN "Resume"
       ELSE IF PauseCond(lower) THEN "Pause"
       ELSE "None"

\* parse_command: Option<ChatCommand> as "Pause", "Resume" or "None"
parse_command(r) ==
    LET lower == ToLowercase(r)
    IN IF PauseCond(lower) THEN "Pause"
       ELSE IF ResumeCond(lower) THEN "Resume"
       ELSE "None"

(***************************************************************************)
(* Chatbox: messages, the worker thread and fetch_deepseek_reply.          *)
(***************************************************************************)
ChatboxReady ==
    <<"C", "h", "a", "t", "b", "o", "x", " ", "r", "e", "a", "d", "y", ".">>

\* the example prompt Chatbox::new prefills the input with: a non-blank ASCII
\* sentence, shortened here to one letter so that it fits MaxLen
ExamplePrompt == <<"a">>

LLMErrorPrefix ==
    <<"L", "L", "M", " ", "e", "r", "r", "o", "r", ":", " ">>
MissingKey ==
    <<"M", "i", "s", "s", "i", "n", "g", " ", "D", "E", "E", "P", "S", "E",
      "E", "K", "_", "A", "P", "I", "_", "K", "E", "Y", " ", "e", "n", "v",
      " ", "v", "a", "r">>
EmptyReply ==
    <<"(", "e", "m", "p", "t", "y", " ", "r", "e", "p", "l", "y", ")">>
SystemInstruction ==
    <<"Y", "o", "u", " ", "a", "r", "e", " ", "c", "o", "n", "t", "r", "o",
      "l", "l", "i", "n", "g", " ", "a", " ", "t", "r", "a", "f", "f", "i",
      "c", " ", "s", "i", "m", "u", "l", "a", "t", "i", "o", "n", ".", " ",
      "Y", "o", "u", " ", "m", "a", "y", " ", "i", "n", "c", "l", "u", "d",
      "e", " ", "l", "i", "n", "e", "s", " ", "l", "i", "k", "e", " ", "A",
      "C", "T", "I", "O", "N", ":", " ", "p", "a", "u", "s", "e", " ", "o",
      "r", " ", "A", "C", "T", "I", "O", "N", ":", " ", "r", "e", "s", "u",
      "m", "e", ".", " ", "K", "e", "e", "p", " ", "r", "e", "p", "l", "i",
      "e", "s", " ", "s", "h", "o", "r", "t", ".">>

\* descriptions of the reqwest errors that the ? operators of
\* fetch_deepseek_reply pass on: a transport failure, an undecodable body
TransportError ==
    <<"e", "r", "r", "o", "r", " ", "s", "e", "n", "d", "i", "n", "g", " ",
      "r", "e", "q", "u", "e", "s", "t">>
DecodeError ==
    <<"e", "r", "r", "o", "r", " ", "d", "e", "c", "o", "d", "i", "n", "g",
      " ", "r", "e", "s", "p", "o", "n", "s", "e", " ", "b", "o", "d", "y">>

Msg(role, content) == [role |-> role, content |-> content]

\* iter.rev().take(n).rev(): the last n entries, in their original order
LastN(s, n) == SubSeq(s, Max(1, Len(s) - n + 1), Len(s))

\* the number of history entries fetch_deepseek_reply sends as context
ContextWindow == 8
\* the number of messages rebuild_panel shows
DisplayWindow == 6

\* the role names fetch_deepseek_reply sends
RoleName(role) ==
    CASE role = "User" -> "user"
      [] role = "Assistant" -> "assistant"
      [] role = "System" -> "system"

\* the messages of the request fetch_deepseek_reply builds
RequestMessages(history, user_msg) ==
    <<Msg("system", SystemInstruction)>>
        \o [i \in 1..Len(LastN(history, ContextWindow)) |->
              Msg(RoleName(LastN(history, ContextWindow)[i].role),
                  LastN(history, ContextWindow)[i].content)]
        \o <<Msg("user", user_msg)>>

\* what the chat-completion endpoint can answer: an error on the way, or a
\* body whose list of choices is empty or starts with some content
NetResponses ==
    [kind : {"error"}, val : {TransportError, DecodeError}]
        \cup [kind : {"choices"}, val : {<<>>, <<SlashPause>>, <<SlashPlay>>}]

\* the Result<String> of fetch_deepseek_reply once the endpoint has answered
FetchResult(resp) ==
    IF resp.kind = "error" THEN [ok |-> FALSE, val |-> resp.val]
    ELSE IF resp.val = <<>> THEN [ok |-> TRUE, val |-> EmptyReply]
    ELSE [ok |-> TRUE, val |-> resp.val[1]]

\* the recent messages rebuild_panel displays
Recent == LastN(messages, DisplayWindow)

(***************************************************************************)
(* The text box on its own: built from any prefilled content, with or      *)
(* without autofocus, then driven by key and pointer events.               *)
(***************************************************************************)
Prefills == {s \in SeqsUpTo({"a", NewLine, LeadByte, ContByte}, MaxBufLen) : ValidUtf8(s)}

ChatIdle ==
    /\ messages = <<>> /\ input_prefill = <<>> /\ pending_rx = 0
    /\ pending_command = "None" /\ width_pct = 35 /\ height_pct = 35
    /\ taken = "None" /\ pc = "poll" /\ workers = <<>> /\ has_key = FALSE

ParseIdle == reply = <<>> /\ parsed = "None"

InitBuf ==
    /\ \E p \in Prefills, auto \in BOOLEAN :
          LET b == NewTextBox(p, auto)
          IN /\ text = b.text /\ cursor_x = b.cursor_x
             /\ has_focus = b.has_focus /\ autofocus = b.autofocus
    /\ outcome = "Nothing" /\ consumed = FALSE /\ panicked = FALSE
    /\ ChatIdle /\ ParseIdle

BoxStep(ev) ==
    /\ ~panicked
    /\ ~GrowsPastBound(ev, MaxBufLen)
    /\ LET r == TextBoxEvent(Box, ev)
       IN /\ text' = r.text /\ cursor_x' = r.cursor_x /\ has_focus' = r.has_focus
          /\ outcome' = r.outcome /\ consumed' = r.consumed
          /\ panicked' = r.panicked
    /\ UNCHANGED <<autofocus, chatVars, parseVars>>

NextBuf == \E ev \in BufKeyEvents \cup MouseEvents : BoxStep(ev)

SpecBuf == InitBuf /\ [][NextBuf]_vars

(***************************************************************************)
(* The chat box.  One frame of the UI thread is Chatbox::event: the poll   *)
(* of the pending request (pc = "poll"), then the dispatch of the frame's  *)
(* input event to the panel (pc = "dispatch").  The host calls             *)
(* take_command and recreate_panel between two frames.  Each worker thread *)
(* runs fetch_deepseek_reply and sends its result on its own channel.      *)
(***************************************************************************)
\* usize::saturating_sub
SaturatingSub(a, b) == IF a >= b THEN a - b ELSE 0

\* the step of a resize, and the clamps of the two percentages
ResizeStep == 5
MinPct == 15
MaxWidthPct == 50
MaxHeightPct == 60

\* the "smaller" arm of Chatbox::event
ShrinkWidth(w) == Max(SaturatingSub(w, ResizeStep), MinPct)
ShrinkHeight(h) == Max(SaturatingSub(h, ResizeStep), MinPct)

\* a grow of the width that stops at the ceiling of the height
GrowWidthToHeightCeiling(w) == Min(w + ResizeStep, MaxHeightPct)

\* the "larger" arm of Chatbox::event
GrowWidth(w) == Min(w + ResizeStep, MaxWidthPct)
GrowHeight(h) == Min(h + ResizeStep, MaxHeightPct)

\* Chatbox::new, with the panel it builds
Init ==
    /\ messages = <<Msg("System", ChatboxReady)>>
    /\ input_prefill = ExamplePrompt
    /\ pending_rx = 0
    /\ pending_command = "None"
    /\ width_pct = 35 /\ height_pct = 35
    /\ LET b == NewTextBox(ExamplePrompt, FALSE)
       IN /\ text = b.text /\ cursor_x = b.cursor_x
          /\ has_focus = b.has_focus /\ autofocus = b.autofocus
    /\ outcome = "Nothing" /\ consumed = FALSE /\ panicked = FALSE
    /\ taken = "None" /\ pc = "poll" /\ workers = <<>>
    /\ has_key \in BOOLEAN
    /\ ParseIdle

\* rebuild_panel: the panel gets a new text box holding input_prefill
RebuildPanel(prefill) ==
    LET b == NewTextBox(prefill, FALSE)
    IN /\ text' = b.text /\ cursor_x' = b.cursor_x /\ has_focus' = b.has_focus

\* a poll that takes a channel with nothing in it yet for a failed request
TryRecvOrFail ==
    IF pending_rx # 0
    THEN IF workers[pending_rx].chan # <<>>
         THEN <<Head(workers[pending_rx].chan)>>
         ELSE <<[ok |-> FALSE, val |-> TransportError]>>
    ELSE <<>>

\* mpsc::Receiver::try_recv on the pending channel: <<>> when there is no
\* pending request or nothing has been sent yet
TryRecv ==
    IF pending_rx # 0 /\ workers[pending_rx].chan # <<>>
    THEN <<Head(workers[pending_rx].chan)>>
    ELSE <<>>

\* the sequence s without its i-th element
RemoveAt(s, i) == SubSeq(s, 1, i - 1) \o SubSeq(s, i + 1, Len(s))

\* the message Chatbox::event appends for a received result
ReplyMessage(res) ==
    IF res.ok THEN Msg("Assistant", res.val)
    ELSE Msg("System", LLMErrorPrefix \o res.val)

\* a mailbox that keeps its command when the reply carries none
MailboxKept(res) ==
    IF res.ok /\ parse_command(res.val) # "None" THEN parse_command(res.val)
    ELSE pending_command

\* a mailbox that a failed request empties
MailboxCleared(res) == IF res.ok THEN parse_command(res.val) ELSE "None"

\* the mailbox after a received result
MailboxAfter(res) == IF res.ok THEN parse_command(res.val) ELSE pending_command

\* a poll that takes the result but keeps the handle of the answered request
PollKeepsHandle ==
    /\ pc = "poll" /\ ~panicked
    /\ IF TryRecv # <<>>
       THEN /\ pending_rx' = pending_rx
            /\ workers' = [workers EXCEPT ![pending_rx].chan = Tail(@)]
            /\ messages' = Append(messages, ReplyMessage(TryRecv[1]))
            /\ pending_command' = MailboxAfter(TryRecv[1])
            /\ RebuildPanel(input_prefill)
            /\ input_prefill' = input_prefill
       ELSE /\ input_prefill' = text
            /\ UNCHANGED <<pending_rx, workers, messages, pending_command, text,
                           cursor_x, has_focus>>
    /\ pc' = "dispatch" /\ taken' = "None"
    /\ UNCHANGED <<autofocus, outcome, consumed, panicked, width_pct, height_pct,
                   has_key, parseVars>>

\* Chatbox::event, first part: the check for an inflight response, then the
\* copy of the input text into input_prefill
PollCompletion ==
    /\ pc = "poll" /\ ~panicked
    /\ IF TryRecv # <<>>
       THEN /\ pending_rx' = 0
            /\ workers' = RemoveAt(workers, pending_rx)
            /\ messages' = Append(messages, ReplyMessage(TryRecv[1]))
            /\ pending_command' = MailboxAfter(TryRecv[1])
            /\ RebuildPanel(input_prefill)
            /\ input_prefill' = input_prefill
       ELSE /\ input_prefill' = text
            /\ UNCHANGED <<pending_rx, workers, messages, pending_command, text,
                           cursor_x, has_focus>>
    /\ pc' = "dispatch" /\ taken' = "None"
    /\ UNCHANGED <<autofocus, outcome, consumed, panicked, width_pct, height_pct,
                   has_key, parseVars>>

\* the input as typed, not trimmed
UntrimmedInput == text

\* input.trim() in the "send" arm, input being the text of the text box
TrimmedInput == Trim(text)

\* a guard that does not look at the pending request
SendRejectedUnguarded(trimmed) == trimmed = <<>>

\* the guard of the "send" arm: the submit is dropped
SendRejected(trimmed) == trimmed = <<>> \/ pending_rx # 0

\* start_request: the worker thread and its channel
NewWorker(history, user_msg) ==
    [pc |-> "fetch", history |-> history, user_msg |-> user_msg, chan |-> <<>>]

\* the history start_request hands to the worker
Snapshot(msgs_after_push) == msgs_after_push

\* the "send" arm of Chatbox::event
Submit ==
    LET trimmed == TrimmedInput
    IN IF SendRejected(trimmed)
       THEN UNCHANGED <<messages, input_prefill, text, cursor_x, has_focus,
                        pending_rx, workers, width_pct, height_pct>>
       ELSE /\ messages' = Append(messages, Msg("User", trimmed))
            /\ input_prefill' = <<>>
            /\ RebuildPanel(<<>>)
            /\ workers' = Append(workers, NewWorker(Snapshot(messages'), trimmed))
            /\ pending_rx' = Len(workers) + 1
            /\ UNCHANGED <<width_pct, height_pct>>

\* a resize that rebuilds the panel with an emptied input, as the send arm
\* does
ResizeDropsInput(dir) ==
    /\ input_prefill' = <<>>
    /\ width_pct' = IF dir = "smaller" THEN ShrinkWidth(width_pct)
                    ELSE GrowWidth(width_pct)
    /\ height_pct' = IF dir = "smaller" THEN ShrinkHeight(height_pct)
                     ELSE GrowHeight(height_pct)
    /\ RebuildPanel(<<>>)
    /\ UNCHANGED <<messages, pending_rx, workers>>

\* the "smaller" and "larger" arms of Chatbox::event
Resize(dir) ==
    /\ input_prefill' = text
    /\ width_pct' = IF dir = "smaller" THEN ShrinkWidth(width_pct)
                    ELSE GrowWidth(width_pct)
    /\ height_pct' = IF dir = "smaller" THEN ShrinkHeight(height_pct)
                     ELSE GrowHeight(height_pct)
    /\ RebuildPanel(text)
    /\ UNCHANGED <<messages, pending_rx, workers>>

\* a submit that would grow the history past the model's bound
HistoryFull(ev, maxMsgs) ==
    ev.kind = "Click" /\ ev.arg = "send" /\ ~SendRejected(TrimmedInput)
        /\ Len(messages) + 2 > maxMsgs

\* Chatbox::event, second part: the panel handles the frame's input event ev
\* (the text box sees every event, a button answers its click) and the
\* match on the panel's outcome
PanelEvent(ev, maxMsgs) ==
    /\ pc = "dispatch" /\ ~panicked
    /\ ~GrowsPastBound(ev, MaxLen)
    /\ ~HistoryFull(ev, maxMsgs)
    /\ IF ev.kind = "Click"
       THEN /\ IF ev.arg = "send" THEN Submit ELSE Resize(ev.arg)
            /\ UNCHANGED panicked
       ELSE /\ LET r == TextBoxEvent(Box, ev)
               IN /\ text' = r.text /\ cursor_x' = r.cursor_x
                  /\ has_focus' = r.has_focus /\ panicked' = r.panicked
            /\ UNCHANGED <<messages, input_prefill, pending_rx, workers,
                           width_pct, height_pct>>
    /\ pc' = "poll"
    /\ UNCHANGED <<autofocus, outcome, consumed, pending_command, taken, has_key,
                   parseVars>>

\* a read of the mailbox that leaves its content in place
OptionClone(opt) == [ret |-> opt, left |-> opt]

\* Option::take on the mailbox: the value handed out and the value left
OptionTake(opt) == [ret |-> opt, left |-> "None"]

\* Chatbox::take_command
TakeCommand ==
    /\ pc = "poll" /\ ~panicked
    /\ taken' = OptionTake(pending_command).ret
    /\ pending_command' = OptionTake(pending_command).left
    /\ UNCHANGED <<boxVars, messages, input_prefill, pending_rx, width_pct,
                   height_pct, pc, workers, has_key, parseVars>>

\* a rebuild that keeps only the displayed messages in the history
RecreatePanelTruncating ==
    /\ pc = "poll" /\ ~panicked
    /\ RebuildPanel(input_prefill)
    /\ messages' = Recent
    /\ UNCHANGED <<autofocus, outcome, consumed, panicked, input_prefill,
                   pending_rx, pending_command, width_pct, height_pct, taken, pc,
                   workers, has_key, parseVars>>

\* Chatbox::recreate_panel
RecreatePanel ==
    /\ pc = "poll" /\ ~panicked
    /\ RebuildPanel(input_prefill)
    /\ UNCHANGED <<autofocus, outcome, consumed, panicked, chatVars, parseVars>>

\* a worker thread that ends without sending when the credential is missing
WorkerFetchSilent(i) ==
    /\ workers[i].pc = "fetch"
    /\ workers' = [workers EXCEPT ![i] =
          IF has_key THEN [@ EXCEPT !.pc = "net"] ELSE [@ EXCEPT !.pc = "done"]]
    /\ UNCHANGED <<boxVars, messages, input_prefill, pending_rx, pending_command,
                   width_pct, height_pct, taken, pc, has_key, parseVars>>

\* the worker thread, up to the request it posts: fetch_deepseek_reply reads
\* the credential and returns at once without it, and the thread sends that
WorkerFetch(i) ==
    /\ workers[i].pc = "fetch"
    /\ workers' = [workers EXCEPT ![i] =
          IF has_key THEN [@ EXCEPT !.pc = "net"]
          ELSE [@ EXCEPT !.pc = "done",
                         !.chan = Append(@, [ok |-> FALSE, val |-> MissingKey])]]
    /\ UNCHANGED <<boxVars, messages, input_prefill, pending_rx, pending_command,
                   width_pct, height_pct, taken, pc, has_key, parseVars>>

\* a worker thread that sends its result twice
WorkerRespondTwice(i, resp) ==
    /\ workers[i].pc = "net"
    /\ workers' = [workers EXCEPT ![i] =
          [@ EXCEPT !.pc = "done",
                    !.chan = @ \o <<FetchResult(resp), FetchResult(resp)>>]]
    /\ UNCHANGED <<boxVars, messages, input_prefill, pending_rx, pending_command,
                   width_pct, height_pct, taken, pc, has_key, parseVars>>

\* the worker thread, from the endpoint's answer on: the rest of
\* fetch_deepseek_reply, then tx.send
WorkerRespond(i, resp) ==
    /\ workers[i].pc = "net"
    /\ workers' = [workers EXCEPT ![i] =
          [@ EXCEPT !.pc = "done", !.chan = Append(@, FetchResult(resp))]]
    /\ UNCHANGED <<boxVars, messages, input_prefill, pending_rx, pending_command,
                   width_pct, height_pct, taken, pc, has_key, parseVars>>

Events == KeyEvents \cup MouseEvents \cup ClickEvents

\* the chat box under every input event
Next ==
    \/ PollCompletion
    \/ \E ev \in Events : PanelEvent(ev, MaxMsgs)
    \/ TakeCommand
    \/ RecreatePanel
    \/ \E i \in 1..Len(workers) : WorkerFetch(i)
    \/ \E i \in 1..Len(workers), resp \in NetResponses : WorkerRespond(i, resp)

Spec == Init /\ [][Next]_vars

\* a longer conversation, during which the user does not resize the panel
ChatEvents == {ev \in Events : ev.kind = "Click" => ev.arg = "send"}

NextChat ==
    \/ PollCompletion
    \/ \E ev \in ChatEvents : PanelEvent(ev, MaxChatMsgs)
    \/ TakeCommand
    \/ RecreatePanel
    \/ \E i \in 1..Len(workers) : WorkerFetch(i)
    \/ \E i \in 1..Len(workers), resp \in NetResponses : WorkerRespond(i, resp)

SpecChat == Init /\ [][NextChat]_vars

\* the events of a user who types, deletes, points and sends
FairEvents ==
    {ev \in ChatEvents :
        ev.kind = "KeyPress" => ev.arg \in {"A", "Backspace", "Escape"}}

\* the conversation when the host keeps calling Chatbox::event, one call per
\* frame, each call running its poll and then its dispatch, and when each
\* spawned thread keeps running and its network call returns
FairChat ==
    /\ WF_vars(PollCompletion)
    /\ WF_vars(\E ev \in FairEvents : PanelEvent(ev, MaxChatMsgs))
    /\ WF_vars(\E i \in 1..Len(workers) : WorkerFetch(i))
    /\ WF_vars(\E i \in 1..Len(workers), resp \in NetResponses :
                  WorkerRespond(i, resp))

NextFair ==
    \/ PollCompletion
    \/ \E ev \in FairEvents : PanelEvent(ev, MaxChatMsgs)
    \/ TakeCommand
    \/ RecreatePanel
    \/ \E i \in 1..Len(workers) : WorkerFetch(i)
    \/ \E i \in 1..Len(workers), resp \in NetResponses : WorkerRespond(i, resp)

FairSpecChat == Init /\ [][NextFair]_vars /\ FairChat

\* a conversation long enough for the display to leave messages out: the
\* user points at the input, types one letter, sends, and resizes the panel
MaxLongMsgs == 7

LongEvents ==
    {[kind |-> "MouseMoved", arg |-> "in"], [kind |-> "KeyPress", arg |-> "A"]}
        \cup ClickEvents

\* the endpoint fails on the way, or answers with a directive
LongResponses ==
    {resp \in NetResponses : resp.val \in {TransportError, <<SlashPause>>}}

NextLong ==
    \/ PollCompletion
    \/ \E ev \in LongEvents : PanelEvent(ev, MaxLongMsgs)
    \/ TakeCommand
    \/ RecreatePanel
    \/ \E i \in 1..Len(workers) : WorkerFetch(i)
    \/ \E i \in 1..Len(workers), resp \in LongResponses : WorkerRespond(i, resp)

SpecLong == Init /\ [][NextLong]_vars

(***************************************************************************)
(* parse_command on its own, over replies put together from a few pieces.  *)
(***************************************************************************)
\* most pieces in one reply
MaxPieces == 3

ReplyPieces ==
    {<<"A", "C", "T", "I", "O", "N", ":", " ", "p", "a", "u", "s", "e">>,
     <<"a", "c", "t", "i", "o", "n", ":", " ", "R", "e", "s", "u", "m", "e">>,
     <<"/", "p", "a", "u", "s", "e">>,
     <<"/", "R", "E", "S", "U", "M", "E">>,
     <<"/", "p", "l", "a", "y">>,
     <<"P", "a", "u", "s", "e">>,
     <<"r", "e", "s", "u", "m", "e">>,
     <<"S", "u", "r", "e", ",", " ">>,
     <<" ", "n", "o", "w">>,
     <<"o", "k", ".", " ">>,
     <<" ">>,
     <<NewLine>>}

RECURSIVE Concat(_)
Concat(ps) == IF ps = <<>> THEN <<>> ELSE Head(ps) \o Concat(Tail(ps))

Replies == {Concat(ps) : ps \in SeqsUpTo(ReplyPieces, MaxPieces)}

InitParse ==
    /\ reply \in Replies /\ parsed = "Unset"
    /\ text = <<>> /\ cursor_x = 0 /\ has_focus = FALSE /\ autofocus = FALSE
    /\ outcome = "Nothing" /\ consumed = FALSE /\ panicked = FALSE
    /\ ChatIdle

ParseStep ==
    /\ parsed = "Unset"
    /\ parsed' = parse_command(reply)
    /\ UNCHANGED <<reply, boxVars, chatVars>>

NextParse == ParseStep

SpecParse == InitParse /\ [][NextParse]_vars

(***************************************************************************)
(* Properties.                                                             *)
(***************************************************************************)
SendEvent == [kind |-> "Click", arg |-> "send"]

\* the step is the poll of a frame
IsPoll == pc = "poll" /\ pc' = "dispatch"

\* the pending channel holds a result
ResultArrived == pending_rx # 0 /\ workers[pending_rx].chan # <<>>

\* the result the pending channel holds
Arrived == Head(workers[pending_rx].chan)

\* the two parts of C1: the step of a send while pending, the state
C1_SendWhilePending ==
    (pending_rx # 0 /\ PanelEvent(SendEvent, MaxChatMsgs))
        => UNCHANGED <<messages, pending_command, pending_rx, text, workers>>

C1_OneOutstanding == Len(workers) <= 1 /\ pending_rx \in {0, Len(workers)}

\* C1: at most one request is outstanding in every reachable state, and a
\* send while a request is pending changes neither the history, the mailbox,
\* the pending handle nor the input text, and spawns no worker
C1_SingleRequest ==
    C1_OneOutstanding /\ [][C1_OneOutstanding' /\ C1_SendWhilePending]_vars

\* a request is pending and the input holds text a send would otherwise submit
C1_Witness ==
    pc = "dispatch" /\ pending_rx # 0 /\ TrimmedInput # <<>>
        /\ Len(messages) + 2 <= MaxChatMsgs

\* the history as it was before the pending submit
HistoryBefore == SubSeq(messages, 1, Len(messages) - 1)

\* the request the claim describes for history H and new message m
ClaimedRequest(H, m) ==
    <<Msg("system", SystemInstruction)>>
        \o [i \in 1..Min(ContextWindow, Len(H)) |->
              Msg(RoleName(H[Len(H) - Min(ContextWindow, Len(H)) + i].role),
                  H[Len(H) - Min(ContextWindow, Len(H)) + i].content)]
        \o <<Msg("user", m)>>

\* C2: the request of an accepted submit of m over history H is the system
\* instruction, the last min(8, |H|) entries of H in order, then m, once
C2_RequestList ==
    \A i \in 1..Len(workers) :
        workers[i].pc = "net"
            => RequestMessages(workers[i].history, workers[i].user_msg)
                  = ClaimedRequest(HistoryBefore, workers[i].user_msg)

\* C3: in every state of the text buffer, 0 <= cursor <= length(content)
CursorInBounds == 0 <= cursor_x /\ cursor_x <= Len(text)

\* an edit has been made in the middle of a text that holds a two-byte
\* character, and the cursor is neither at the start nor at the end
C3_Witness ==
    outcome = "Changed" /\ ~panicked /\ 0 < cursor_x /\ cursor_x < Len(text)
        /\ \E i \in 1..Len(text) : text[i] = LeadByte

\* the poll step of C4
C4_Step ==
    (IsPoll /\ ResultArrived /\ Arrived.ok)
        => /\ pending_rx' = 0
           /\ messages' = Append(messages, Msg("Assistant", Arrived.val))
           /\ pending_command' = parse_command(Arrived.val)

\* C4: a poll that observes a successful result with text r removes the
\* pending handle, appends the one message Assistant(r) and sets the mailbox
\* to parse(r), whatever the mailbox held
C4_SuccessPoll == [][C4_Step]_vars

\* an unconsumed Pause is in the mailbox and the reply about to be polled
\* carries no directive
C4_Witness ==
    pc = "poll" /\ ResultArrived /\ Arrived.ok /\ pending_command = "Pause"
        /\ parse_command(Arrived.val) = "None"

\* the parts of C5: the failing poll, the send after it, the runs without
\* a credential
C5_Step ==
    (IsPoll /\ ResultArrived /\ ~Arrived.ok)
        => /\ pending_rx' = 0
           /\ messages' = Append(messages,
                                 Msg("System", LLMErrorPrefix \o Arrived.val))
           /\ pending_command' = pending_command

C5_Retry ==
    (/\ PanelEvent(SendEvent, MaxChatMsgs)
     /\ messages[Len(messages)].role = "System"
     /\ TrimmedInput # <<>>)
        => /\ pending_rx' # 0
           /\ messages' = Append(messages, Msg("User", TrimmedInput))

C5_NoCredential ==
    ~has_key
        => /\ pending_command = "None"
           /\ \A i \in 2..Len(messages) :
                 IF i % 2 = 0 THEN messages[i].role = "User"
                 ELSE messages[i] = Msg("System", LLMErrorPrefix \o MissingKey)

\* C5: a poll that observes a failed result removes the pending handle,
\* appends the one message System("LLM error: <description>") and leaves the
\* mailbox as it was; a send is accepted right after; without a credential
\* every reply is System("LLM error: Missing DEEPSEEK_API_KEY env var") and
\* the mailbox stays empty
C5_FailurePoll ==
    C5_NoCredential /\ [][C5_NoCredential' /\ C5_Step /\ C5_Retry]_vars

\* a failed request has been reported and the next send has been accepted
C5_Witness ==
    /\ Len(messages) = 4 /\ pending_rx # 0
    /\ messages[3] = Msg("System", LLMErrorPrefix \o MissingKey)
    /\ messages[4].role = "User"

\* the parts of C6: the steps, and the state after a command is handed out
C6_Step ==
    /\ TakeCommand => (taken' = pending_command /\ pending_command' = "None")
    /\ (pending_command = "None" /\ pending_command' # "None")
          => (IsPoll /\ ResultArrived /\ Arrived.ok)

C6_HandedOutOnce == taken # "None" => pending_command = "None"

\* C6: take_command returns the mailbox content and leaves the mailbox
\* empty; the mailbox fills only at a poll that observes a successful result,
\* so that a command is handed out at most once
C6_Drain == C6_HandedOutOnce /\ [][C6_HandedOutOnce' /\ C6_Step]_vars

\* a command has been handed out
C6_Witness == taken = "Pause" /\ pending_command = "None"

\* the classification the claim gives for a lower-cased reply
Classified(lower) ==
    CASE (\E m \in {ActionPause, SlashPause} : Contains(lower, m))
            \/ Trim(lower) = WordPause -> "Pause"
      [] ~((\E m \in {ActionPause, SlashPause} : Contains(lower, m))
            \/ Trim(lower) = WordPause)
         /\ ((\E m \in {ActionResume, SlashResume, SlashPlay} : Contains(lower, m))
            \/ Trim(lower) = WordResume) -> "Resume"
      [] OTHER -> "None"

SureActionPauseNow ==
    <<"S", "u", "r", "e", ",", " ", "A", "C", "T", "I", "O", "N", ":", " ", "p",
      "a", "u", "s", "e", " ", "n", "o", "w">>

\* C7: parse classifies the lower-cased reply as Pause on a pause marker,
\* otherwise as Resume on a resume marker, otherwise as empty; a reply with
\* markers of both kinds is Pause
C7_Parse ==
    parsed # "Unset"
        => /\ parsed = Classified(ToLowercase(reply))
           /\ (PauseCond(ToLowercase(reply)) /\ ResumeCond(ToLowercase(reply)))
                 => parsed = "Pause"
           /\ reply = SureActionPauseNow => parsed = "Pause"
           /\ Trim(ToLowercase(reply)) = WordResume => parsed = "Resume"

\* a reply with a pause marker and a resume marker has been parsed
C7_Witness ==
    parsed = "Pause" /\ Contains(ToLowercase(reply), SlashPlay)
        /\ Contains(ToLowercase(reply), SlashPause)

RECURSIVE ShrinkTimes(_, _, _)
ShrinkTimes(n, w, h) ==
    IF n = 0 THEN <<w, h>> ELSE ShrinkTimes(n - 1, ShrinkWidth(w), ShrinkHeight(h))

\* the parts of C8: the range, the ten shrinks, the steps
C8_InRange == width_pct \in 15..50 /\ height_pct \in 15..60

C8_TenShrinks == ShrinkTimes(10, 35, 35) = <<15, 15>>

C8_Step ==
    /\ PanelEvent([kind |-> "Click", arg |-> "smaller"], MaxMsgs)
          => /\ width_pct' = IF width_pct = 15 THEN 15 ELSE width_pct - 5
             /\ height_pct' = IF height_pct = 15 THEN 15 ELSE height_pct - 5
    /\ PanelEvent([kind |-> "Click", arg |-> "larger"], MaxMsgs)
          => /\ width_pct' = IF width_pct = 50 THEN 50 ELSE width_pct + 5
             /\ height_pct' = IF height_pct = 60 THEN 60 ELSE height_pct + 5
    /\ (width_pct' # width_pct \/ height_pct' # height_pct)
          => \E dir \in {"smaller", "larger"} :
                PanelEvent([kind |-> "Click", arg |-> dir], MaxMsgs)

\* C8: the width stays within [15, 50] and the height within [15, 60]; a
\* resize moves each of them by 5, or by 0 at its bound, and no other step
\* moves them; ten shrinks from (35, 35) end at (15, 15)
C8_Resize == C8_InRange /\ C8_TenShrinks /\ [][C8_InRange' /\ C8_Step]_vars

\* shrinks have brought both percentages to their floor
C8_Witness == width_pct = 15 /\ height_pct = 15

\* the parts of C9: the send step, and the User messages of the history
C9_Step ==
    (pending_rx = 0 /\ PanelEvent(SendEvent, MaxMsgs))
        => IF Trim(text) = <<>>
           THEN UNCHANGED <<messages, text, cursor_x, input_prefill, pending_rx,
                            workers, pending_command>>
           ELSE /\ messages' = Append(messages, Msg("User", Trim(text)))
                /\ text' = <<>>
                /\ Len(workers') = Len(workers) + 1
                /\ pending_rx' # 0

C9_UserMessages ==
    \A i \in 1..Len(messages) :
        messages[i].role = "User"
            => /\ messages[i].content # <<>>
               /\ ~IsWhitespace(messages[i].content[1])
               /\ ~IsWhitespace(messages[i].content[Len(messages[i].content)])

\* C9: a send with no request pending is accepted exactly when the input is
\* non-empty after trimming: it then appends User(trimmed input), empties
\* the input, spawns one worker and leaves a request pending; otherwise it
\* changes nothing; every User message is non-empty and has no whitespace
\* at either end
C9_Submit == C9_UserMessages /\ [][C9_UserMessages' /\ C9_Step]_vars

\* nothing is pending and the input holds text with whitespace at its end
C9_Witness ==
    pc = "dispatch" /\ pending_rx = 0 /\ text = <<"a", NewLine>>
        /\ Len(messages) + 2 <= MaxMsgs

\* the parts of C10: the idle poll step, and the poll being enabled
C10_Step ==
    (IsPoll /\ (pending_rx = 0 \/ workers[pending_rx].chan = <<>>))
        => UNCHANGED <<messages, pending_command, pending_rx>>

C10_NeverBlocks ==
    (pc = "poll" /\ ~panicked /\ pending_rx # 0 /\ workers[pending_rx].chan = <<>>)
        => ENABLED PollCompletion

\* C10: a poll with no request pending, or with no result sent yet, changes
\* neither the history, the mailbox nor the pending handle, and the poll is
\* never blocked
C10_IdlePoll == C10_NeverBlocks /\ [][C10_NeverBlocks' /\ C10_Step]_vars

\* a request is pending, its worker has not sent, and a frame starts
C10_Witness == pc = "poll" /\ pending_rx # 0 /\ workers[pending_rx].chan = <<>>

\* the parts of C11: the answer to the pending request, the step that
\* destroys the handle
C11_Answered == (pending_rx # 0) ~> (pending_rx = 0)

C11_Destroyed ==
    (pending_rx # 0 /\ pending_rx' = 0)
        => /\ IsPoll /\ ResultArrived
           /\ messages' = Append(messages, ReplyMessage(Arrived))

\* C11: when the frames keep coming and the worker keeps running, every
\* accepted submit is eventually answered: the request pending after the
\* submit is eventually no longer pending, its reply is in the history, and
\* the handle goes away at the poll that observes the worker's result
C11_EventuallyAnswered == C11_Answered /\ [][C11_Destroyed]_vars

\* a request is pending and its worker is still waiting for the endpoint
C11_Witness ==
    pending_rx # 0 /\ workers[pending_rx].pc = "net"
        /\ workers[pending_rx].chan = <<>>

KeyA == [kind |-> "KeyPress", arg |-> "A"]
KeyB == [kind |-> "KeyPress", arg |-> "B"]
KeyC == [kind |-> "KeyPress", arg |-> "C"]
KeyEnter == [kind |-> "KeyPress", arg |-> "Enter"]
KeyBackspace == [kind |-> "KeyPress", arg |-> "Backspace"]
KeyLeft == [kind |-> "KeyPress", arg |-> "LeftArrow"]
KeyRight == [kind |-> "KeyPress", arg |-> "RightArrow"]

\* the box handles the keys of the frame's event
HandlesKeys(ev) == autofocus \/ FocusAfterHover(Box, ev)

\* the text box after the events evs, one per frame; a panic ends the run
RECURSIVE AfterEvents(_, _)
AfterEvents(b, evs) ==
    IF evs = <<>> THEN [b EXCEPT !.panicked = FALSE]
    ELSE LET r == TextBoxEvent(b, Head(evs))
         IN IF r.panicked THEN r ELSE AfterEvents(r, Tail(evs))

\* the parts of C12: the example, and an insert step followed by a delete
C12_Example ==
    LET typed == AfterEvents(NewTextBox(<<>>, TRUE) @@ [panicked |-> FALSE],
                             <<KeyA, KeyB, KeyC>>)
        r == AfterEvents(typed, <<KeyBackspace, KeyBackspace>>)
    IN /\ typed.text = <<"a", "b", "c">>
       /\ ~r.panicked /\ r.text = <<"a">> /\ r.cursor_x = 1

C12_Step ==
    \A ev \in {KeyA, KeyB, KeyC} :
        (BoxStep(ev) /\ HandlesKeys(ev))
            => /\ ~panicked'
               /\ LET r == TextBoxEvent(Box', KeyBackspace)
                  IN ~r.panicked /\ r.text = text /\ r.cursor_x = cursor_x

\* C12: from any state of the buffer, an insert of a character followed by
\* a delete-backward gives back the content and the cursor of before the
\* insert; from the empty content, "a", "b", "c" and two delete-backwards
\* leave the content "a" and the cursor at 1
C12_RoundTrip == C12_Example /\ [][C12_Step]_vars

\* m is a reply: an Assistant message, or a System message that reports an
\* error
IsReply(m) ==
    \/ m.role = "Assistant"
    \/ /\ m.role = "System"
       /\ Len(m.content) >= Len(LLMErrorPrefix)
       /\ SubSeq(m.content, 1, Len(LLMErrorPrefix)) = LLMErrorPrefix

\* the parts of C13: the shape of the history, the step that appends a reply
C13_Shape ==
    /\ Len(messages) >= 1 /\ messages[1] = Msg("System", ChatboxReady)
    /\ \A i \in 2..Len(messages) :
          IF i % 2 = 0 THEN messages[i].role = "User" ELSE IsReply(messages[i])
    /\ pending_rx # 0 <=> Len(messages) % 2 = 0
    /\ pending_rx # 0
          => /\ pending_rx \in 1..Len(workers)
             /\ messages[Len(messages)]
                   = Msg("User", workers[pending_rx].user_msg)

C13_Step ==
    (messages' # messages /\ messages'[Len(messages')].role # "User")
        => /\ IsPoll /\ ResultArrived
           /\ messages[Len(messages)] = Msg("User", workers[pending_rx].user_msg)
           /\ messages' = Append(messages, ReplyMessage(Arrived))

\* C13: the history is the first System entry followed by pairs of a User
\* message and the reply to that request (an Assistant message or a System
\* error message), with one more User message at the end exactly when a
\* request is pending; a reply is appended only by a poll that observes the
\* result of the request of the last User message
C13_InOrder == C13_Shape /\ [][C13_Shape' /\ C13_Step]_vars

\* two requests have been answered, the first with an error
C13_Witness ==
    Len(messages) = 5 /\ messages[3].role = "System"
        /\ messages[5].role = "Assistant" /\ pending_rx = 0

\* the number of replies in the history
RECURSIVE CountReplies(_)
CountReplies(ms) ==
    IF ms = <<>> THEN 0
    ELSE (IF IsReply(Head(ms)) THEN 1 ELSE 0) + CountReplies(Tail(ms))

\* the number of User messages in the history: the accepted submits
RECURSIVE CountUsers(_)
CountUsers(ms) ==
    IF ms = <<>> THEN 0
    ELSE (IF Head(ms).role = "User" THEN 1 ELSE 0) + CountUsers(Tail(ms))

\* the parts of C14: what a worker has sent, the replies per submit, the
\* steps that append a reply or remove the handle
C14_OneSend ==
    \A i \in 1..Len(workers) :
        /\ Len(workers[i].chan) <= 1
        /\ Len(workers[i].chan) = 1 <=> workers[i].pc = "done"

C14_OneReply ==
    CountReplies(messages)
        = CountUsers(messages) - (IF pending_rx # 0 THEN 1 ELSE 0)

C14_Step ==
    /\ (pending_rx # 0 /\ pending_rx' = 0)
          <=> (Len(messages') = Len(messages) + 1 /\ IsReply(messages'[Len(messages')]))
    /\ (IsPoll /\ pending_rx = 0) => messages' = messages
    /\ \A i \in 1..Len(workers) :
          (i <= Len(workers') /\ workers'[i].chan # workers[i].chan)
              => (workers[i].chan = <<>> /\ workers[i].pc # "done")

\* C14: a worker sends at most one value and sends nothing after it; every
\* accepted submit gets exactly one reply in the history, appended by the
\* poll step that removes the pending handle, and a poll with no handle
\* appends nothing
C14_ExactlyOnce ==
    C14_OneSend /\ C14_OneReply
        /\ [][C14_OneSend' /\ C14_OneReply' /\ C14_Step]_vars

\* a request has been answered, and the frames go on with nothing pending
C14_Witness ==
    pc = "poll" /\ pending_rx = 0 /\ Len(messages) = 3 /\ workers = <<>>
        /\ messages[3].role = "Assistant"

\* the poll step of C15
C15_Step == (IsPoll /\ ResultArrived) => text' = text

\* C15: the poll that consumes a worker's result and rebuilds the panel
\* leaves the content of the input buffer as it was just before that poll,
\* so that the text typed while the request was pending is kept
C15_TypedTextKept == [][C15_Step]_vars

\* the resize step of C16
C16_Step ==
    \A dir \in {"smaller", "larger"} :
        PanelEvent([kind |-> "Click", arg |-> dir], MaxMsgs)
            => /\ text' = text
               /\ input_prefill' = text
               /\ UNCHANGED <<messages, pending_command, pending_rx, workers>>

\* C16: a resize, shrink or grow, rebuilds the text buffer with the content
\* it had just before, and changes neither the history, nor the mailbox,
\* nor the pending handle
C16_ResizeKeepsInput == [][C16_Step]_vars

\* the panel has been resized while a request is pending and the input holds
\* typed text
C16_Witness ==
    pc = "poll" /\ width_pct # 35 /\ pending_rx # 0 /\ text = <<"a", NewLine>>

\* the unit an insert key puts into the content
UnitOf(ev) == IF ev.arg = "Enter" THEN NewLine ELSE KeyToChar(ev.arg)[1]

\* the step of C17
C17_Step ==
    /\ \A ev \in {KeyA, KeyB, KeyC, KeyEnter} :
          (BoxStep(ev) /\ HandlesKeys(ev))
              => /\ ~panicked'
                 /\ text' = SubSeq(text, 1, cursor_x) \o <<UnitOf(ev)>>
                               \o SubSeq(text, cursor_x + 1, Len(text))
                 /\ cursor_x' = cursor_x + 1
    /\ (BoxStep(KeyBackspace) /\ HandlesKeys(KeyBackspace))
          => IF cursor_x = 0 THEN UNCHANGED <<text, cursor_x>>
             ELSE /\ ~panicked'
                  /\ text' = RemoveAt(text, cursor_x)
                  /\ cursor_x' = cursor_x - 1

\* C17: an insert of a character or of a newline puts the unit at the cursor,
\* content' = content[0..cursor] + unit + content[cursor..], and moves the
\* cursor on by one; a delete-backward at cursor 0 changes nothing, and
\* otherwise removes the one unit at cursor - 1 and moves the cursor back by
\* one
C17_InsertDelete == [][C17_Step]_vars

\* the event is a key that edits the content of a box in this state
IsEdit(ev) ==
    /\ ev.kind = "KeyPress" /\ HandlesKeys(ev)
    /\ \/ KeyToChar(ev.arg) # <<>>
       \/ ev.arg = "Enter"
       \/ (ev.arg = "Backspace" /\ cursor_x > 0)

\* the parts of C18: the two moves, the steps that signal a change
C18_Moves ==
    /\ (BoxStep(KeyLeft) /\ HandlesKeys(KeyLeft))
          => /\ text' = text /\ outcome' = "Nothing" /\ ~panicked'
             /\ cursor_x' = IF cursor_x = 0 THEN 0 ELSE cursor_x - 1
    /\ (BoxStep(KeyRight) /\ HandlesKeys(KeyRight))
          => /\ text' = text /\ outcome' = "Nothing" /\ ~panicked'
             /\ cursor_x' = IF cursor_x = Len(text) THEN cursor_x
                            ELSE cursor_x + 1

C18_Changed ==
    \A ev \in BufKeyEvents \cup MouseEvents :
        (BoxStep(ev) /\ ~panicked')
            => /\ outcome' = "Changed" <=> IsEdit(ev)
               /\ outcome' = "Changed" <=> text' # text

\* C18: a move left or right never changes the content and never signals
\* "changed"; at cursor 0, or at cursor = length, it leaves the buffer as it
\* is, otherwise it moves the cursor by one; "changed" is signalled by the
\* steps that modify the content and by no other: an insert of a character or
\* of a newline, and a delete-backward with the cursor past 0
C18_MovesAndChanges == [][C18_Moves /\ C18_Changed]_vars

\* a key has been handled at the start of a text without changing anything
C18_Witness ==
    cursor_x = 0 /\ text # <<>> /\ consumed /\ outcome = "Nothing" /\ ~panicked

\* the widget is in its state Focused: it handles keys and is drawn undimmed
Focused == autofocus \/ has_focus

\* the parts of C19: a key while unfocused, the focus of a box without
\* autofocus, a box with autofocus
C19_UnfocusedKey ==
    \A ev \in BufKeyEvents :
        (BoxStep(ev) /\ ~Focused)
            => /\ text' = text /\ cursor_x' = cursor_x
               /\ consumed' = FALSE /\ outcome' = "Nothing"
               /\ ~Focused'

C19_Focus ==
    \A ev \in BufKeyEvents \cup MouseEvents :
        (BoxStep(ev) /\ ~autofocus)
            => has_focus' = IF ev.kind = "MouseMoved" THEN ev.arg = "in"
                            ELSE has_focus

C19_Autofocus ==
    /\ autofocus => Focused'
    /\ \A ev \in BufKeyEvents \cup MouseEvents :
          (BoxStep(ev) /\ autofocus)
              => /\ has_focus' = has_focus
                 /\ consumed' = (ev.kind = "KeyPress" /\ ev.arg # "Escape")
                 /\ (~panicked' /\ (ev = KeyEnter \/ ev \in {KeyA, KeyB, KeyC}))
                       => Len(text') = Len(text) + 1

\* C19: while a box without autofocus is unfocused, a key changes neither
\* the content nor the cursor and is left unconsumed; the focus of such a
\* box changes only in a frame that recomputes the hover, where it becomes
\* focused exactly when the pointer is inside its rectangle; a box with
\* autofocus handles the keys in every state and is never unfocused
C19_FocusGate == [][C19_UnfocusedKey /\ C19_Focus /\ C19_Autofocus]_vars

\* a box without autofocus has lost the focus after its cursor was moved
C19_Witness ==
    ~autofocus /\ ~has_focus /\ cursor_x < Len(text) /\ ~panicked

\* the step is an accepted submit
AcceptedSubmit ==
    PanelEvent(SendEvent, MaxLongMsgs) /\ ~SendRejected(TrimmedInput)

\* the parts of C20: the steps, the displayed messages
C20_Step ==
    /\ Len(messages') >= Len(messages)
    /\ SubSeq(messages', 1, Len(messages)) = messages
    /\ messages' # messages
          => /\ Len(messages') = Len(messages) + 1
             /\ AcceptedSubmit \/ (IsPoll /\ ResultArrived)
    /\ AcceptedSubmit => messages' = Append(messages, Msg("User", TrimmedInput))
    /\ (IsPoll /\ ResultArrived) => Len(messages') = Len(messages) + 1
    /\ (TakeCommand \/ RecreatePanel) => messages' = messages
    /\ \A dir \in {"smaller", "larger"} :
          PanelEvent([kind |-> "Click", arg |-> dir], MaxLongMsgs)
              => messages' = messages

C20_Display ==
    /\ Len(Recent) = Min(DisplayWindow, Len(messages))
    /\ \A i \in 1..Len(Recent) :
          Recent[i] = messages[Len(messages) - Len(Recent) + i]

\* C20: across every step of the chat box (submit, poll, resize,
\* take_command, rebuild of the panel) the history of before is a prefix of
\* the history of after; only an accepted submit and a poll that observes a
\* result append, one message each; the panel shows the last 6 messages and
\* the history keeps them all
C20_AppendOnly == C20_Display /\ [][C20_Display' /\ C20_Step]_vars

\* the history holds more messages than the panel shows
C20_Witness ==
    Len(messages) = 7 /\ Len(Recent) = 6 /\ Recent[1] = messages[2]
        /\ width_pct # 35

====
